---- MODULE Spec2Model ----
(***************************************************************************)
(* Model of rank_league.py: read -> calculate_points -> calculate_rank ->  *)
(* write_rank, composed by process_file.                                   *)
(*                                                                         *)
(* Representation.  A Python str is the sequence of its code points, so    *)
(* that str comparison, str(int) and file concatenation are computed and   *)
(* not assumed.  A dict is the sequence of its (key, value) items in       *)
(* insertion order.  A local that is not bound yet, a file that does not   *)
(* exist and "no exception" are None (the empty sequence); a bound value   *)
(* x is Some(x).  The text of the input file is the sequence of its lines; *)
(* a line either carries the four groups REGEX_STRING captures in it or    *)
(* holds no match at all.  run, prev and before record the caller's view:  *)
(* how many times process_file was called, how the previous call ended and *)
(* what output.txt held when the current call began.                       *)
(***************************************************************************)
EXTENDS Integers, Sequences, FiniteSets, TLC

VARIABLES pc, source, output, matches, points, ranks, err, ret, run, prev, before

vars == <<pc, source, output, matches, points, ranks, err, ret, run, prev, before>>

None == <<>>
Some(x) == <<x>>

(***************************************************************************)
(* Bounds                                                                  *)
(***************************************************************************)
MaxMatches == 2
MaxRuns == 2
MaxDirect == 2
MaxPoints == 3

(***************************************************************************)
(* Text                                                                    *)
(***************************************************************************)
Min(a, b) == IF a < b THEN a ELSE b

\* Python's str "<": lexicographic by code point, a proper prefix is smaller.
StrLess(s, t) ==
    \E k \in 0..Min(Len(s), Len(t)) :
        /\ \A i \in 1..k : s[i] = t[i]
        /\ \/ k = Len(s) /\ k < Len(t)
           \/ k < Len(s) /\ k < Len(t) /\ s[k + 1] < t[k + 1]

RECURSIVE Str(_)
\* str(n) of a non-negative int, as the f-string of write_rank renders it.
Str(n) == IF n < 10 THEN <<48 + n>> ELSE Str(n \div 10) \o <<48 + (n % 10)>>

TeamNames == {<<65>>, <<65, 66>>, <<66>>}
RankNames == TeamNames \cup {<<97>>}
ScoreTexts == {<<48>>, <<49>>}
DirectNames == {<<65>>, <<66>>}
DirectTexts == {<<57>>, <<49, 48>>, <<48, 57>>, <<120>>}
StaleReport == <<49, 46, 32, 90, 44, 32, 49, 32, 112, 116, 10>>

(***************************************************************************)
(* dict helpers                                                            *)
(***************************************************************************)
HasKey(d, k) == \E i \in 1..Len(d) : d[i][1] = k
KeyIndex(d, k) == CHOOSE i \in 1..Len(d) : d[i][1] = k

\* faulty variant: points[k] = v
DictAddOverwrite(d, k, v) ==
    IF HasKey(d, k)
    THEN [d EXCEPT ![KeyIndex(d, k)] = <<k, v>>]
    ELSE Append(d, <<k, v>>)

\* faulty variant: if v: points[k] += v
DictAddNonZero(d, k, v) ==
    IF v = 0 THEN d
    ELSE IF HasKey(d, k)
    THEN [d EXCEPT ![KeyIndex(d, k)] = <<k, d[KeyIndex(d, k)][2] + v>>]
    ELSE Append(d, <<k, 0 + v>>)

\* points[k] += v on a defaultdict(int)
DictAdd(d, k, v) ==
    IF HasKey(d, k)
    THEN [d EXCEPT ![KeyIndex(d, k)] = <<k, d[KeyIndex(d, k)][2] + v>>]
    ELSE Append(d, <<k, 0 + v>>)

\* rank[k].append(x) on a defaultdict(list)
DictAppend(d, k, x) ==
    IF HasKey(d, k)
    THEN [d EXCEPT ![KeyIndex(d, k)] = <<k, Append(d[KeyIndex(d, k)][2], x)>>]
    ELSE Append(d, <<k, <<x>>>>)

(***************************************************************************)
(* calculate_match_points, calculate_points                                *)
(***************************************************************************)
calculate_match_points(score1, score2) ==
    IF score1 = score2 THEN <<1, 1>>
    ELSE IF StrLess(score2, score1) THEN <<3, 0>>
    ELSE <<0, 3>>

RECURSIVE PointsLoop(_, _, _)
\* the for loop of calculate_points from record i on, d the dict so far
PointsLoop(ms, i, d) ==
    IF i > Len(ms) THEN [raised |-> FALSE, value |-> d]
    ELSE LET team1 == ms[i][1]
             score1 == ms[i][2]
             team2 == ms[i][3]
             score2 == ms[i][4]
         IN IF team1 = team2 THEN [raised |-> TRUE, value |-> <<>>]
            ELSE LET p == calculate_match_points(score1, score2)
                 IN PointsLoop(ms, i + 1, DictAdd(DictAdd(d, team1, p[1]), team2, p[2]))

RECURSIVE PointsLoopSkip(_, _, _)
PointsLoopSkip(ms, i, d) ==
    IF i > Len(ms) THEN [raised |-> FALSE, value |-> d]
    ELSE IF ms[i][1] = ms[i][3] THEN PointsLoopSkip(ms, i + 1, d)
    ELSE LET p == calculate_match_points(ms[i][2], ms[i][4])
         IN PointsLoopSkip(ms, i + 1, DictAdd(DictAdd(d, ms[i][1], p[1]), ms[i][3], p[2]))

\* faulty variant: a self-play record is passed over (continue) instead of raising
calculate_points_skip(ms) == PointsLoopSkip(ms, 1, <<>>)

calculate_points(ms) == PointsLoop(ms, 1, <<>>)

(***************************************************************************)
(* sort_points, calculate_rank                                             *)
(***************************************************************************)
\* faulty variant: the sort key is -points alone
KeyLessPointsOnly(a, b) == (-a[2]) < (-b[2])

\* the order of the sort key (-points, team)
KeyLess(a, b) == (-a[2]) < (-b[2]) \/ (a[2] = b[2] /\ StrLess(a[1], b[1]))

\* x goes behind every item that is not greater than it (sorted is stable)
InsertSorted(s, x) ==
    LET n == Cardinality({i \in 1..Len(s) : ~KeyLess(x, s[i])})
    IN SubSeq(s, 1, n) \o <<x>> \o SubSeq(s, n + 1, Len(s))

RECURSIVE SortLoop(_, _, _)
SortLoop(d, i, acc) ==
    IF i > Len(d) THEN acc ELSE SortLoop(d, i + 1, InsertSorted(acc, d[i]))

sort_points(d) == SortLoop(d, 1, <<>>)

RECURSIVE RankLoop(_, _, _, _, _, _)
RankLoop(sorted_dict, i, counter, prev_points, nth, rank) ==
    IF i > Len(sorted_dict) THEN rank
    ELSE LET team == sorted_dict[i][1]
             pts == sorted_dict[i][2]
             nth2 == IF pts # prev_points THEN counter ELSE nth
         IN RankLoop(sorted_dict, i + 1, counter + 1, pts, nth2,
                     DictAppend(rank, nth2, <<team, pts>>))

RECURSIVE RankLoopDense(_, _, _, _, _)
RankLoopDense(sorted_dict, i, prev_points, nth, rank) ==
    IF i > Len(sorted_dict) THEN rank
    ELSE LET team == sorted_dict[i][1]
             pts == sorted_dict[i][2]
             nth2 == IF pts # prev_points THEN nth + 1 ELSE nth
         IN RankLoopDense(sorted_dict, i + 1, pts, nth2,
                          DictAppend(rank, nth2, <<team, pts>>))

\* faulty variant: dense ranks, a tie does not consume rank numbers
calculate_rank_dense(d) == RankLoopDense(sort_points(d), 1, -1, 0, <<>>)

calculate_rank(d) == RankLoop(sort_points(d), 1, 1, -1, -1, <<>>)

(***************************************************************************)
(* write_rank                                                              *)
(***************************************************************************)
\* faulty variant: 'pt' if points <= 1
UnitUpToOne(p) == IF p <= 1 THEN <<112, 116>> ELSE <<112, 116, 115>>

Unit(p) == IF p = 1 THEN <<112, 116>> ELSE <<112, 116, 115>>

FormatLine(rank, team, p) ==
    Str(rank) \o <<46, 32>> \o team \o <<44, 32>> \o Str(p) \o <<32>> \o Unit(p) \o <<10>>

RECURSIVE WriteTeams(_, _, _)
WriteTeams(rank, teams, j) ==
    IF j > Len(teams) THEN <<>>
    ELSE FormatLine(rank, teams[j][1], teams[j][2]) \o WriteTeams(rank, teams, j + 1)

RECURSIVE WriteLoop(_, _)
WriteLoop(rk, i) ==
    IF i > Len(rk) THEN <<>>
    ELSE WriteTeams(rk[i][1], rk[i][2], 1) \o WriteLoop(rk, i + 1)

\* faulty variant: open("output.txt", "a")
WrittenAppend(old, rk) == (IF old = None THEN <<>> ELSE old[1]) \o WriteLoop(rk, 1)

\* what open("output.txt", "w") and the writes leave in a file that held old
Written(old, rk) == WriteLoop(rk, 1)

(***************************************************************************)
(* read                                                                    *)
(***************************************************************************)
Match(g) == [found |-> TRUE, groups |-> g]
NoMatch == [found |-> FALSE, groups |-> <<>>]

RECURSIVE FindAll(_, _)
FindAll(text, i) ==
    IF i > Len(text) THEN <<>>
    ELSE (IF text[i].found THEN <<text[i].groups>> ELSE <<>>) \o FindAll(text, i + 1)

(***************************************************************************)
(* Inputs                                                                  *)
(***************************************************************************)
SeqsUpTo(S, n) == UNION {[1..k -> S] : k \in 0..n}

Records(names, texts) == names \X texts \X names \X texts

SourceLines == {Match(g) : g \in Records(TeamNames, ScoreTexts)} \cup {NoMatch}

Tables ==
    {t \in SeqsUpTo(RankNames \X (0..MaxPoints), Cardinality(RankNames)) :
        \A i, j \in 1..Len(t) : i # j => t[i][1] # t[j][1]}

(***************************************************************************)
(* process_file                                                            *)
(***************************************************************************)
Init ==
    /\ pc = "idle"
    /\ source \in {None} \cup {Some(t) : t \in SeqsUpTo(SourceLines, MaxMatches)}
    /\ output \in {None, Some(StaleReport)}
    /\ matches = None
    /\ points = None
    /\ ranks = None
    /\ err = None
    /\ ret = None
    /\ run = 0
    /\ prev = "none"
    /\ before = None

ProcessFile ==
    /\ pc \in {"idle", "done", "raised"}
    /\ run < MaxRuns
    /\ pc' = "read"
    /\ run' = run + 1
    /\ prev' = pc
    /\ before' = output
    /\ matches' = None
    /\ points' = None
    /\ ranks' = None
    /\ err' = None
    /\ ret' = None
    /\ UNCHANGED <<source, output>>

Read ==
    /\ pc = "read"
    /\ source # None
    /\ matches' = Some(FindAll(source[1], 1))
    /\ pc' = "points"
    /\ UNCHANGED <<source, output, points, ranks, err, ret, run, prev, before>>

\* faulty variant: except: matches = []
ReadFailSwallow ==
    /\ pc = "read"
    /\ source = None
    /\ matches' = Some(<<>>)
    /\ pc' = "points"
    /\ UNCHANGED <<source, output, points, ranks, err, ret, run, prev, before>>

ReadFail ==
    /\ pc = "read"
    /\ source = None
    /\ err' = Some("FileNotFoundError")
    /\ pc' = "raised"
    /\ UNCHANGED <<source, output, matches, points, ranks, ret, run, prev, before>>

CalculatePoints ==
    /\ pc = "points"
    /\ LET r == calculate_points(matches[1])
       IN IF r.raised
          THEN /\ err' = Some("ValueError")
               /\ pc' = "raised"
               /\ points' = points
          ELSE /\ points' = Some(r.value)
               /\ pc' = "rank"
               /\ err' = err
    /\ UNCHANGED <<source, output, matches, ranks, ret, run, prev, before>>

CalculateRank ==
    /\ pc = "rank"
    /\ ranks' = Some(calculate_rank(points[1]))
    /\ pc' = "write"
    /\ UNCHANGED <<source, output, matches, points, err, ret, run, prev, before>>

WriteRank ==
    /\ pc = "write"
    /\ output' = Some(Written(output, ranks[1]))
    /\ ret' = Some(0)
    /\ pc' = "done"
    /\ UNCHANGED <<source, matches, points, ranks, err, run, prev, before>>

WriteFail ==
    /\ pc = "write"
    /\ err' = Some("OSError")
    /\ pc' = "raised"
    /\ UNCHANGED <<source, output, matches, points, ranks, ret, run, prev, before>>

Next ==
    \/ ProcessFile
    \/ Read
    \/ ReadFail
    \/ CalculatePoints
    \/ CalculateRank
    \/ WriteRank
    \/ WriteFail

Spec == Init /\ [][Next]_vars

\* calculate_points called on a list of records, as its doctests call it
InitPoints ==
    /\ pc = "points"
    /\ matches \in {Some(ms) : ms \in SeqsUpTo(Records(DirectNames, DirectTexts), MaxDirect)}
    /\ source = None
    /\ output = None
    /\ points = None
    /\ ranks = None
    /\ err = None
    /\ ret = None
    /\ run = 1
    /\ prev = "none"
    /\ before = None

NextPoints == CalculatePoints

SpecPoints == InitPoints /\ [][NextPoints]_vars

\* calculate_rank and write_rank called on a dict, as their doctests call them
InitRank ==
    /\ pc = "rank"
    /\ points \in {Some(t) : t \in Tables}
    /\ source = None
    /\ output = Some(StaleReport)
    /\ matches = None
    /\ ranks = None
    /\ err = None
    /\ ret = None
    /\ run = 1
    /\ prev = "none"
    /\ before = output

NextRank ==
    \/ CalculateRank
    \/ WriteRank
    \/ WriteFail

SpecRank == InitRank /\ [][NextRank]_vars

(***************************************************************************)
(* Vocabulary of the properties                                            *)
(***************************************************************************)
IsDigits(s) == Len(s) > 0 /\ \A i \in 1..Len(s) : s[i] \in 48..57

RECURSIVE IntOf(_)
IntOf(s) == IF Len(s) = 0 THEN 0 ELSE 10 * IntOf(SubSeq(s, 1, Len(s) - 1)) + (s[Len(s)] - 48)

IntegerPoints(s1, s2) ==
    IF IntOf(s1) > IntOf(s2) THEN <<3, 0>>
    ELSE IF IntOf(s1) < IntOf(s2) THEN <<0, 3>>
    ELSE <<1, 1>>

RECURSIVE SumFn(_, _)
SumFn(f, n) == IF n = 0 THEN 0 ELSE f[n] + SumFn(f, n - 1)

ShareOf(rec, t, p) == (IF rec[1] = t THEN p[1] ELSE 0) + (IF rec[3] = t THEN p[2] ELSE 0)

IntegerTotal(ms, t) ==
    SumFn([i \in 1..Len(ms) |-> ShareOf(ms[i], t, IntegerPoints(ms[i][2], ms[i][4]))], Len(ms))

AwardedTotal(ms, t) ==
    SumFn([i \in 1..Len(ms) |-> ShareOf(ms[i], t, calculate_match_points(ms[i][2], ms[i][4]))],
          Len(ms))

TeamsOf(ms) == {ms[i][1] : i \in 1..Len(ms)} \cup {ms[i][3] : i \in 1..Len(ms)}

Items(d) == {d[i] : i \in 1..Len(d)}

Perms(n) == {q \in [1..n -> 1..n] : \A i, j \in 1..n : i # j => q[i] # q[j]}

Permuted(s, q) == [i \in 1..Len(s) |-> s[q[i]]]

HasSelfPlay(ms) == \E i \in 1..Len(ms) : ms[i][1] = ms[i][3]

RECURSIVE Entries(_, _)
\* the (rank, team, points) triples of a RankTable in iteration order
Entries(rk, i) ==
    IF i > Len(rk) THEN <<>>
    ELSE [j \in 1..Len(rk[i][2]) |-> <<rk[i][1], rk[i][2][j][1], rk[i][2][j][2]>>]
         \o Entries(rk, i + 1)

RECURSIVE SplitLoop(_, _, _, _)
SplitLoop(s, i, cur, acc) ==
    IF i > Len(s) THEN (IF cur = <<>> THEN acc ELSE Append(acc, cur))
    ELSE IF s[i] = 10 THEN SplitLoop(s, i + 1, <<>>, Append(acc, cur))
    ELSE SplitLoop(s, i + 1, Append(cur, s[i]), acc)

\* the lines of a text, without their newlines
Lines(s) == SplitLoop(s, 1, <<>>, <<>>)

FirstIndex(line, c) ==
    CHOOSE i \in 1..Len(line) : line[i] = c /\ \A j \in 1..(i - 1) : line[j] # c

\* the team name of a report line: between the first ". " and the first ","
NameField(line) == SubSeq(line, FirstIndex(line, 46) + 2, FirstIndex(line, 44) - 1)

(***************************************************************************)
(* Claims about calculate_points (SpecPoints)                              *)
(***************************************************************************)
\* C1: when every score field is a non-negative integer literal, the table
\* calculate_points returns gives each team the 3/1/0 points of comparing the
\* scores as integers.
C1_IntegerScoring ==
    (pc = "rank" /\ matches # None
        /\ \A i \in 1..Len(matches[1]) : IsDigits(matches[1][i][2]) /\ IsDigits(matches[1][i][4]))
    => Items(points[1]) = {<<t, IntegerTotal(matches[1], t)>> : t \in TeamsOf(matches[1])}

\* C5: when some score field is not parseable as an integer, calculate_points
\* ends with an error and returns no table.
C5_InvalidScoreRaised ==
    (matches # None /\ pc # "points"
        /\ \E i \in 1..Len(matches[1]) :
              ~IsDigits(matches[1][i][2]) \/ ~IsDigits(matches[1][i][4]))
    => (pc = "raised" /\ err # None /\ points = None)

\* C7: every permutation of the records gives the same set of teams with the
\* same totals, and each team's total is the sum of what each record awards it,
\* each record counted once.
C7_OrderIndependent ==
    (pc = "rank" /\ matches # None)
    => LET ms == matches[1]
       IN /\ \A q \in Perms(Len(ms)) :
                LET r == calculate_points(Permuted(ms, q))
                IN ~r.raised /\ Items(r.value) = Items(points[1])
          /\ Len(points[1]) = Cardinality(TeamsOf(ms))
          /\ \A t \in TeamsOf(ms) : <<t, AwardedTotal(ms, t)>> \in Items(points[1])

C7_Witness ==
    /\ pc = "rank" /\ matches # None
    /\ Len(matches[1]) = 2
    /\ matches[1][1][1] = matches[1][2][1]
    /\ calculate_match_points(matches[1][1][2], matches[1][1][4]) = <<3, 0>>
    /\ calculate_match_points(matches[1][2][2], matches[1][2][4]) = <<1, 1>>

(***************************************************************************)
(* Claims about calculate_rank and write_rank (SpecRank)                   *)
(***************************************************************************)
\* C2: each team's rank is 1 + the number of teams with strictly more points;
\* equal points share one rank key, more points means a smaller rank, and the
\* rank after a group of N teams at rank r is r + N.
C2_CompetitionRank ==
    (ranks # None /\ points # None)
    => LET tbl == points[1]
           rk == ranks[1]
           e == Entries(rk, 1)
       IN /\ Len(e) = Len(tbl)
          /\ \A i \in 1..Len(tbl) : \E j \in 1..Len(e) : e[j][2] = tbl[i][1] /\ e[j][3] = tbl[i][2]
          /\ \A j \in 1..Len(e) :
                e[j][1] = 1 + Cardinality({i \in 1..Len(tbl) : tbl[i][2] > e[j][3]})
          /\ \A i, j \in 1..Len(e) :
                /\ (e[i][3] = e[j][3]) <=> (e[i][1] = e[j][1])
                /\ (e[i][3] > e[j][3]) => (e[i][1] < e[j][1])
          /\ \A a, b \in 1..Len(rk) : a # b => rk[a][1] # rk[b][1]
          /\ \A a \in 1..(Len(rk) - 1) : rk[a + 1][1] = rk[a][1] + Len(rk[a][2])

C2_Witness ==
    /\ ranks # None /\ points # None
    /\ Len(ranks[1]) = 3
    /\ ranks[1][1][1] = 1 /\ Len(ranks[1][1][2]) = 2
    /\ ranks[1][2][1] = 3 /\ ranks[1][3][1] = 4

\* C3: the teams come out by points descending and, among equal points, by
\* name strictly ascending; every insertion order of the same PointsTable gives
\* the same RankTable, and the report lines follow that order.
C3_SortedWhateverInsertionOrder ==
    (ranks # None /\ points # None)
    => LET tbl == points[1]
           e == Entries(ranks[1], 1)
       IN /\ \A i, j \in 1..Len(e) :
                i < j => \/ e[i][3] > e[j][3]
                         \/ e[i][3] = e[j][3] /\ StrLess(e[i][2], e[j][2])
          /\ pc = "write" =>
                \A q \in Perms(Len(tbl)) : calculate_rank(Permuted(tbl, q)) = ranks[1]
          /\ pc = "done" =>
                LET ls == Lines(output[1])
                IN Len(ls) = Len(e) /\ \A i \in 1..Len(e) : NameField(ls[i]) = e[i][2]

C3_Witness ==
    /\ pc = "done" /\ points # None
    /\ \E i, j \in 1..Len(points[1]) :
          /\ i < j
          /\ points[1][i][2] = points[1][j][2]
          /\ StrLess(points[1][j][1], points[1][i][1])

\* C8: every report line is '{rank}. {team}, {points} {unit}' with unit 'pt'
\* exactly when points = 1 and 'pts' otherwise.
C8_UnitPluralization ==
    (pc = "done")
    => LET e == Entries(ranks[1], 1)
           ls == Lines(output[1])
       IN /\ Len(ls) = Len(e)
          /\ \A i \in 1..Len(e) :
                ls[i] = Str(e[i][1]) \o <<46, 32>> \o e[i][2] \o <<44, 32>> \o Str(e[i][3])
                        \o (IF e[i][3] = 1 THEN <<32, 112, 116>> ELSE <<32, 112, 116, 115>>)
          /\ (output[1] # <<>> => output[1][Len(output[1])] = 10)

C8_Witness ==
    /\ pc = "done"
    /\ \E i, j, k \in 1..Len(points[1]) :
          points[1][i][2] = 0 /\ points[1][j][2] = 1 /\ points[1][k][2] = 2

(***************************************************************************)
(* Claims about process_file (Spec)                                        *)
(***************************************************************************)
\* C4: a self-play record at any position makes calculate_points raise
\* ValueError with no table returned; process_file stops there and output.txt
\* holds what it held before the run.
C4_SelfPlayAborts ==
    (matches # None /\ pc # "points" /\ HasSelfPlay(matches[1]))
    => /\ pc = "raised"
       /\ err = Some("ValueError")
       /\ points = None
       /\ ranks = None
       /\ ret = None
       /\ output = before

C4_Witness ==
    /\ pc = "raised" /\ err = Some("ValueError")
    /\ Len(matches[1]) = 2
    /\ matches[1][1][1] # matches[1][1][3]
    /\ matches[1][2][1] = matches[1][2][3]
    /\ before = Some(StaleReport)

\* C9: when the input cannot be opened, read raises FileNotFoundError, no later
\* stage runs and output.txt is neither created nor changed.
C9_SourceUnavailable ==
    (source = None /\ pc \notin {"idle", "read"})
    => /\ pc = "raised"
       /\ err = Some("FileNotFoundError")
       /\ matches = None
       /\ points = None
       /\ ranks = None
       /\ ret = None
       /\ output = before

C9_Witness ==
    /\ pc = "raised" /\ err = Some("FileNotFoundError")
    /\ source = None
    /\ run = 2
    /\ output = Some(StaleReport)

RECURSIVE Report(_, _)
Report(e, i) ==
    IF i > Len(e) THEN <<>> ELSE FormatLine(e[i][1], e[i][2], e[i][3]) \o Report(e, i + 1)

\* C6: after a successful write the file holds the lines of the RankTable just
\* written and nothing of what it held before; a run that follows a successful
\* run on the same input leaves the content as it was.
C6_OverwriteIdempotent ==
    (pc = "done")
    => /\ output = Some(Report(Entries(ranks[1], 1), 1))
       /\ Len(Lines(output[1])) = Len(points[1])
       /\ (prev = "done" => output = before)

C6_Witness ==
    /\ pc = "done" /\ prev = "done" /\ run = 2
    /\ Len(points[1]) = 3

\* C10: the report has exactly one line for each team that occurs in a record,
\* teams with 0 points included, and no other line; no records, empty report.
C10_OneLinePerTeam ==
    (pc = "done" /\ matches # None)
    => LET ms == matches[1]
           ls == Lines(output[1])
       IN /\ Len(ls) = Cardinality(TeamsOf(ms))
          /\ \A t \in TeamsOf(ms) : Cardinality({i \in 1..Len(ls) : NameField(ls[i]) = t}) = 1
          /\ (ms = <<>> => output = Some(<<>>))

C10_Witness ==
    /\ pc = "done" /\ matches # None
    /\ \E i \in 1..Len(points[1]) : points[1][i][2] = 0
    /\ before = Some(StaleReport)
====
